---- MODULE Spec2Model ----
(***************************************************************************)
(* Model of src/app.js (lines 1-414): the SRC weather board.               *)
(*                                                                         *)
(* State: the two module-level variables (currentLang, LAST_DATA), the     *)
(* DOM elements the script writes, and the position of the single async    *)
(* init() call.  Operations: the synchronous start of init(), the two      *)
(* await points of init() (fetch, resp.json()), and the language buttons'  *)
(* click handler.  The pure helpers are operators.                         *)
(*                                                                         *)
(* Conventions: an optional JS value is None (null/undefined) or Some(v).  *)
(* Temperatures, rain and wind speed are integers in tenths, so that       *)
(* toFixed(1) is exact.  Korean literals are romanised.                    *)
(***************************************************************************)
EXTENDS Integers, Sequences, FiniteSets, TLC

VARIABLES
    currentLang,          \* app.js:1
    LAST_DATA,            \* app.js:2
    statusEl,             \* app.js:4   innerHTML of #status
    coursesEl,            \* app.js:5   children of #courses
    labelEls,             \* app.js:6-8 textContent of the three static labels
    courseListUpdatedEl,  \* app.js:9   textContent of #course-list-updated
    activeBtn,            \* app.js:61-65 which .lang-btn carries "active"
    pc,                   \* position of init(): start, awaitFetch, awaitJson, done
    fetchOutcome,         \* none, transport, http, decode, ok
    fetchCount,           \* number of fetch() calls issued
    coursesAtStart,       \* children of #courses when init() started
    lastEvent,            \* the handler that ran last, its input, whether it threw
    viewLog,              \* the views since LAST_DATA was last settled (last 3)
    probeDeg, probeLang, probeDir,       \* windDirectionToText probe
    pmIn, pmOut, pmPrevIn, pmPrevOut     \* classifyPm10 probe

appVars == <<currentLang, LAST_DATA, statusEl, coursesEl, labelEls,
             courseListUpdatedEl, activeBtn, pc, fetchOutcome, fetchCount,
             coursesAtStart, lastEvent, viewLog>>
windVars == <<probeDeg, probeLang, probeDir>>
pmVars == <<pmIn, pmOut, pmPrevIn, pmPrevOut>>
vars == <<appVars, windVars, pmVars>>

\* ---------------------------------------------------------------- bounds
MaxCourses == 2     \* longest courses array of a payload
MaxDeg == 400       \* bearings probed: -MaxDeg..MaxDeg
MaxPm == 160        \* PM10 values probed: 0..MaxPm

\* ---------------------------------------------------------------- values
Langs == {"ko", "en"}
None == <<>>
Some(v) == <<v>>
IsNone(x) == x = None
Val(x) == x[1]
\* a ?? b, and a || b for an a that is truthy when present
OrElse(a, b) == IF IsNone(a) THEN b ELSE Val(a)

Abs(n) == IF n < 0 THEN -n ELSE n
\* JS remainder: the sign follows the dividend
JsRem(a, n) == IF a >= 0 THEN a % n ELSE -((-a) % n)
\* Math.round(a / b) for b > 0: floor(a/b + 1/2)
RoundDiv(a, b) == (2 * a + b) \div (2 * b)
\* Number.prototype.toFixed(1) of a value given in tenths
ToFixed1(t) == [neg |-> t < 0, whole |-> Abs(t) \div 10, frac |-> Abs(t) % 10]
\* String(v).padStart(2, "0") of a one- or two-digit number
Pad2(n) == <<n \div 10, n % 10>>

\* ---------------------------------------------------------------- uiText
UiAppTitle(lang) ==
    IF lang = "ko" THEN "SRC nalssi jeongbo" ELSE "SRC Weather Information"
UiAppSubtitle(lang) ==
    IF lang = "ko" THEN "SRC reoneodeul-eul wihan hyeonjae koseu sanghwang"
    ELSE "Current course conditions for SRC runners"
UiCourseListTitle(lang) ==
    IF lang = "ko" THEN "koseubyeol hyeonjae sanghwang"
    ELSE "Current conditions by course"
UiStatusLoading(lang) == <<"statusLoading", lang, 0>>
UiStatusLoaded(count, lang) == <<"statusLoaded", lang, count>>
UiFail(lang) == <<"fail", lang, 0>>
UiAirQualityLabel(lang) == IF lang = "ko" THEN "gonggijil" ELSE "Air quality"
UiGpxLabel(lang) == IF lang = "ko" THEN "GPX pail yeolgi" ELSE "Open GPX file"

WIND_SOURCE_IS_MS == TRUE

\* ---------------------------------------------------------------- helpers
\* the empty string, as the text of an element whose text is a formatted phrase
EmptyText == <<>>

formatUpdatedAtLocalized(iso, lang) ==
    IF IsNone(iso) THEN EmptyText
    ELSE LET s == Val(iso) IN
         IF ~s.hasT THEN EmptyText
         ELSE IF lang = "ko"
              THEN <<"updated-ko", s.y, s.m, s.d, Pad2(s.hh), Pad2(s.mm)>>
              ELSE <<"updated-en", s.y, Pad2(s.m), Pad2(s.d), Pad2(s.hh), Pad2(s.mm)>>

\* LAST_DATA.courses || []
Courses(data) == IF data.hasCourses THEN data.courses ELSE <<>>

getCommonUpdatedAt(data) ==
    IF data.isNull THEN None
    ELSE IF Len(Courses(data)) = 0 THEN None
    ELSE Courses(data)[1].updated_at

renderUpdatedAt(data, lang) ==
    LET iso == getCommonUpdatedAt(data) IN
    IF IsNone(iso) THEN EmptyText ELSE formatUpdatedAtLocalized(iso, lang)

dirsKo == <<"buk", "bukdong", "dong", "namdong", "nam", "namseo", "seo", "bukseo">>
dirsEn == <<"N", "NE", "E", "SE", "S", "SW", "W", "NW">>

\* dirs[idx] of an 8-element array: undefined outside 0..7
ArrayAt(arr, idx) == IF idx >= 0 /\ idx < Len(arr) THEN arr[idx + 1] ELSE "undefined"

windDirectionToText(deg, lang) ==
    IF IsNone(deg) THEN "-"
    ELSE LET idx == JsRem(RoundDiv(JsRem(Val(deg), 360), 45), 8) IN
         IF lang = "ko" THEN ArrayAt(dirsKo, idx) ELSE ArrayAt(dirsEn, idx)

formatWindText(speed, deg, lang) ==
    IF IsNone(speed) THEN <<"-">>
    ELSE LET valueMs == IF WIND_SOURCE_IS_MS THEN Val(speed)
                        ELSE RoundDiv(Val(speed) * 10, 36) IN
         <<windDirectionToText(deg, lang), ToFixed1(valueMs), "m/s">>

runScoreClass(score) ==
    IF IsNone(score) THEN "run-score run-score-unknown"
    ELSE IF Val(score) >= 80 THEN "run-score run-score-great"
    ELSE IF Val(score) >= 60 THEN "run-score run-score-good"
    ELSE IF Val(score) >= 40 THEN "run-score run-score-caution"
    ELSE "run-score run-score-bad"

PmInfo(level, ko, en) == Some([level |-> level, ko |-> ko, en |-> en])

\* classifyPm10 with the first bound open: 30 falls into moderate
classifyPm10OpenBound(value) ==
    IF IsNone(value) THEN None
    ELSE IF Val(value) < 30 THEN PmInfo("good", "joeum", "Good")
    ELSE IF Val(value) <= 80 THEN PmInfo("moderate", "botong", "Moderate")
    ELSE IF Val(value) <= 150 THEN PmInfo("bad", "nappeum", "Bad")
    ELSE PmInfo("very-bad", "maeu nappeum", "Very bad")

classifyPm10(value) ==
    IF IsNone(value) THEN None
    ELSE IF Val(value) <= 30 THEN PmInfo("good", "joeum", "Good")
    ELSE IF Val(value) <= 80 THEN PmInfo("moderate", "botong", "Moderate")
    ELSE IF Val(value) <= 150 THEN PmInfo("bad", "nappeum", "Bad")
    ELSE PmInfo("very-bad", "maeu nappeum", "Very bad")

classifyPm25(value) ==
    IF IsNone(value) THEN None
    ELSE IF Val(value) <= 15 THEN PmInfo("good", "joeum", "Good")
    ELSE IF Val(value) <= 35 THEN PmInfo("moderate", "botong", "Moderate")
    ELSE IF Val(value) <= 75 THEN PmInfo("bad", "nappeum", "Bad")
    ELSE PmInfo("very-bad", "maeu nappeum", "Very bad")

buildNaverMapLink(lat, lon) ==
    IF IsNone(lat) \/ IsNone(lon) THEN None
    ELSE Some(<<"https://map.naver.com/v5/?c=", Val(lon), Val(lat), "16,0,0,0,dh">>)

PmText(name, value, info, lang) ==
    IF ~IsNone(value) /\ ~IsNone(info)
    THEN <<<<name, Val(value), "ug/m3",
             IF lang = "ko" THEN Val(info).ko ELSE Val(info).en>>>>
    ELSE <<>>

buildAirQualityHtml(info, lang) ==
    IF IsNone(info.pm10) /\ IsNone(info.pm25) THEN None
    ELSE LET parts == PmText("PM10", info.pm10, classifyPm10(info.pm10), lang)
                      \o PmText("PM2.5", info.pm25, classifyPm25(info.pm25), lang) IN
         IF Len(parts) = 0 THEN None
         ELSE Some([label |-> UiAirQualityLabel(lang), parts |-> parts])

\* ---------------------------------------------------------------- cards
\* info.x.toFixed(1) on a missing x is a TypeError
CardThrows(info) ==
    \/ IsNone(info.temperature)
    \/ IsNone(info.apparent_temperature)
    \/ IsNone(info.rain_now)
    \/ IsNone(info.recent_rain_3h)

\* arr[i] (0-based) of a tag array, None when out of range or falsy ("")
TagAt(tagsOpt, i) ==
    IF IsNone(tagsOpt) THEN None
    ELSE IF i < Len(Val(tagsOpt)) /\ Val(tagsOpt)[i + 1] # ""
         THEN Some(Val(tagsOpt)[i + 1])
         ELSE None

\* the element renderCourseCard returns when it does not throw
renderCourseCard(info, lang) ==
    LET tagsOpt == IF lang = "ko" THEN info.tags_ko ELSE info.tags_en
        lat == info.lat
        lon == info.lon
    IN  [ lang        |-> lang,
          displayName |-> IF lang = "ko" THEN OrElse(info.name_ko, info.name)
                          ELSE OrElse(info.name_en, info.name),
          runClass    |-> runScoreClass(info.run_score),
          runScore    |-> info.run_score,
          tags        |-> OrElse(tagsOpt, <<>>),
          temp        |-> ToFixed1(Val(info.temperature)),
          feels       |-> ToFixed1(Val(info.apparent_temperature)),
          wind        |-> formatWindText(info.wind_speed, info.wind_direction, lang),
          rainNow     |-> ToFixed1(Val(info.rain_now)),
          rain3h      |-> ToFixed1(Val(info.recent_rain_3h)),
          air         |-> buildAirQualityHtml(info, lang),
          location    |-> IF ~IsNone(lat) /\ ~IsNone(lon)
                          THEN Some(<<Val(lat), Val(lon), buildNaverMapLink(lat, lon)>>)
                          ELSE None,
          windScore   |-> info.wind_score,
          windTag     |-> TagAt(tagsOpt, 1),
          airScore    |-> info.air_score,
          airTag      |-> TagAt(tagsOpt, 3),
          adviceShort |-> IF lang = "ko" THEN info.advice_short_ko
                          ELSE info.advice_short_en,
          adviceDetail |-> IF lang = "ko" THEN info.advice_detail_ko
                           ELSE info.advice_detail_en,
          gpx         |-> IF IsNone(info.gpx) THEN None
                          ELSE Some(<<Val(info.gpx), UiGpxLabel(lang)>>) ]

\* index of the first record whose card throws, Len + 1 when none does
RECURSIVE FirstThrow(_, _)
FirstThrow(courses, i) ==
    IF i > Len(courses) THEN i
    ELSE IF CardThrows(courses[i]) THEN i
    ELSE FirstThrow(courses, i + 1)

\* renderAllCourses: the children of #courses afterwards, and whether it threw.
\* The container is emptied first; the cards before the first throw stay appended.
renderAllCourses(data, lang, old) ==
    IF data.isNull THEN [cards |-> old, threw |-> FALSE]
    ELSE LET courses == Courses(data)
             k == FirstThrow(courses, 1)
         IN  [cards |-> [i \in 1..(k - 1) |-> renderCourseCard(courses[i], lang)],
              threw |-> k <= Len(courses)]

renderStatus(data, lang) ==
    IF data.isNull THEN UiStatusLoading(lang)
    ELSE UiStatusLoaded(Len(Courses(data)), lang)

Labels(lang) ==
    [appTitle |-> UiAppTitle(lang), appSubtitle |-> UiAppSubtitle(lang),
     courseListTitle |-> UiCourseListTitle(lang)]

\* ---------------------------------------------------------------- feed
\* updated_at strings: "2025-11-26T21:00", "2025-03-05T07:09", and one without "T"
Stamp(hasT, y, m, d, hh, mm) ==
    Some([hasT |-> hasT, y |-> y, m |-> m, d |-> d, hh |-> hh, mm |-> mm])

\* the record of the end-to-end example: every optional field absent
BaseCourse ==
    [ name |-> "Test Park", name_ko |-> None, name_en |-> None,
      temperature |-> Some(50), apparent_temperature |-> Some(32),
      wind_speed |-> Some(20), wind_direction |-> Some(90),
      rain_now |-> Some(0), recent_rain_3h |-> Some(0),
      run_score |-> Some(72), wind_score |-> None, air_score |-> None,
      pm10 |-> None, pm25 |-> None, lat |-> None, lon |-> None,
      tags_ko |-> None, tags_en |-> None,
      advice_short_ko |-> None, advice_short_en |-> None,
      advice_detail_ko |-> None, advice_detail_en |-> None,
      gpx |-> None, updated_at |-> None ]

\* a record with every field present
FullCourse ==
    [ BaseCourse EXCEPT
      !.name = "Gwanggyo", !.name_ko = Some("Gwanggyo hosu"),
      !.name_en = Some("Gwanggyo Lake"),
      !.temperature = Some(-12), !.apparent_temperature = Some(-45),
      !.wind_speed = Some(34), !.wind_direction = Some(350),
      !.rain_now = Some(2), !.recent_rain_3h = Some(15),
      !.run_score = Some(81), !.wind_score = Some(60), !.air_score = Some(35),
      !.pm10 = Some(31), !.pm25 = Some(76),
      !.lat = Some(3728), !.lon = Some(12706),
      !.tags_ko = Some(<<"chuum", "baram yakgan", "nomyeon geonjo", "gonggi nappeum">>),
      !.tags_en = Some(<<"Cold", "Breezy", "Dry road", "Bad air">>),
      !.advice_short_ko = Some("ttatteushage"), !.advice_short_en = Some("Dress warm"),
      !.advice_detail_ko = Some("jangap"), !.advice_detail_en = Some("Gloves"),
      !.gpx = Some("gwanggyo.gpx"),
      !.updated_at = Stamp(TRUE, 2025, 11, 26, 21, 0) ]

\* a sparse record: temperature and the rain fields are missing
SparseCourse ==
    [ BaseCourse EXCEPT
      !.name = "Sparse", !.temperature = None,
      !.rain_now = None, !.recent_rain_3h = None,
      !.updated_at = Stamp(TRUE, 2025, 3, 5, 7, 9) ]

\* a record whose tag arrays repeat a tag and hold an empty entry
TagCourse ==
    [ BaseCourse EXCEPT
      !.name = "Tags", !.wind_direction = None, !.pm25 = Some(15),
      !.tags_ko = Some(<<"chuum", "", "chuum">>),
      !.tags_en = Some(<<"Cold", "", "Cold">>),
      !.updated_at = Stamp(FALSE, 2025, 11, 26, 0, 0) ]

CourseSamples == {BaseCourse, FullCourse, SparseCourse, TagCourse}

RECURSIVE SeqsUpTo(_, _)
SeqsUpTo(S, n) ==
    IF n = 0 THEN {<<>>}
    ELSE LET shorter == SeqsUpTo(S, n - 1) IN
         shorter \cup {Append(q, x) : q \in shorter, x \in S}

\* JSON null: also the initial value of LAST_DATA
NullData == [isNull |-> TRUE, hasCourses |-> FALSE, courses |-> <<>>]
\* a JSON object without a courses field
NoCoursesData == [isNull |-> FALSE, hasCourses |-> FALSE, courses |-> <<>>]
ObjectData(courses) == [isNull |-> FALSE, hasCourses |-> TRUE, courses |-> courses]

\* what resp.json() can resolve to
Payloads ==
    {NullData, NoCoursesData}
    \cup {ObjectData(q) : q \in SeqsUpTo(CourseSamples, MaxCourses)}

\* ---------------------------------------------------------------- state
\* everything the page shows, with the two module variables
CurrentView ==
    [ lang |-> currentLang, data |-> LAST_DATA, status |-> statusEl,
      updated |-> courseListUpdatedEl, cards |-> coursesEl,
      labels |-> labelEls, active |-> activeBtn ]

Event(op, lang, data, threw) ==
    [op |-> op, lang |-> lang, data |-> data, threw |-> threw]

\* the last two entries of the log, to which the next view is appended
LogTail(log) == IF Len(log) >= 3 THEN SubSeq(log, Len(log) - 1, Len(log)) ELSE log

AppInit ==
    /\ currentLang = "ko"
    /\ LAST_DATA = NullData
    /\ statusEl = <<"html", "", 0>>
    /\ coursesEl = <<>>
    /\ labelEls = [appTitle |-> "", appSubtitle |-> "", courseListTitle |-> ""]
    /\ courseListUpdatedEl = EmptyText
    /\ activeBtn = "ko"
    /\ pc = "start"
    /\ fetchOutcome = "none"
    /\ fetchCount = 0
    /\ coursesAtStart = <<>>
    /\ lastEvent = Event("load", "ko", NullData, FALSE)
    /\ viewLog = <<>>

\* applyLanguage(): the labels, the active button, renderStatus, renderUpdatedAt
applyLanguage ==
    /\ labelEls' = Labels(currentLang')
    /\ activeBtn' = currentLang'
    /\ statusEl' = renderStatus(LAST_DATA', currentLang')
    /\ courseListUpdatedEl' = renderUpdatedAt(LAST_DATA', currentLang')

\* init() up to its first await: applyLanguage, renderStatus, fetch
InitStart ==
    /\ pc = "start"
    /\ UNCHANGED <<windVars, pmVars>>
    /\ UNCHANGED <<currentLang, LAST_DATA, coursesEl, fetchOutcome>>
    /\ applyLanguage
    /\ coursesAtStart' = coursesEl
    /\ fetchCount' = fetchCount + 1
    /\ pc' = "awaitFetch"
    /\ lastEvent' = Event("initStart", currentLang, NullData, FALSE)
    /\ viewLog' = <<CurrentView'>>

\* the catch block of init(): only the status line is written
InitCatch ==
    /\ statusEl' = UiFail(currentLang)
    /\ pc' = "done"

\* fetch() rejects: transport failure
FetchReject ==
    /\ pc = "awaitFetch"
    /\ UNCHANGED <<windVars, pmVars>>
    /\ InitCatch
    /\ fetchOutcome' = "transport"
    /\ UNCHANGED <<currentLang, LAST_DATA, coursesEl, labelEls,
                   courseListUpdatedEl, activeBtn, fetchCount, coursesAtStart>>
    /\ lastEvent' = Event("fetchReject", currentLang, NullData, TRUE)
    /\ viewLog' = <<CurrentView'>>

\* fetch() resolves: !resp.ok throws, otherwise init() awaits resp.json()
FetchRespond(ok) ==
    /\ pc = "awaitFetch"
    /\ UNCHANGED <<windVars, pmVars>>
    /\ UNCHANGED <<currentLang, LAST_DATA, coursesEl, labelEls,
                   courseListUpdatedEl, activeBtn, fetchCount, coursesAtStart>>
    /\ IF ok
       THEN /\ pc' = "awaitJson"
            /\ UNCHANGED <<statusEl, fetchOutcome, viewLog>>
            /\ lastEvent' = Event("fetchRespond", currentLang, NullData, FALSE)
       ELSE /\ InitCatch
            /\ fetchOutcome' = "http"
            /\ lastEvent' = Event("fetchRespond", currentLang, NullData, TRUE)
            /\ viewLog' = <<CurrentView'>>

\* JsonReject with the decode failure swallowed into an empty object that is
\* stored before the catch block runs
JsonRejectStoresEmpty ==
    /\ pc = "awaitJson"
    /\ UNCHANGED <<windVars, pmVars>>
    /\ InitCatch
    /\ fetchOutcome' = "decode"
    /\ LAST_DATA' = NoCoursesData
    /\ UNCHANGED <<currentLang, coursesEl, labelEls,
                   courseListUpdatedEl, activeBtn, fetchCount, coursesAtStart>>
    /\ lastEvent' = Event("jsonReject", currentLang, NullData, TRUE)
    /\ viewLog' = <<CurrentView'>>

\* resp.json() rejects: the body is not JSON
JsonReject ==
    /\ pc = "awaitJson"
    /\ UNCHANGED <<windVars, pmVars>>
    /\ InitCatch
    /\ fetchOutcome' = "decode"
    /\ UNCHANGED <<currentLang, LAST_DATA, coursesEl, labelEls,
                   courseListUpdatedEl, activeBtn, fetchCount, coursesAtStart>>
    /\ lastEvent' = Event("jsonReject", currentLang, NullData, TRUE)
    /\ viewLog' = <<CurrentView'>>

\* resp.json() resolves to data: store it, render the status line, the
\* last-updated line and the cards; a throw while rendering ends in the catch
JsonResolve(data) ==
    /\ pc = "awaitJson"
    /\ UNCHANGED <<windVars, pmVars>>
    /\ LAST_DATA' = data
    /\ courseListUpdatedEl' = renderUpdatedAt(data, currentLang)
    /\ LET r == renderAllCourses(data, currentLang, coursesEl) IN
       /\ coursesEl' = r.cards
       /\ statusEl' = IF r.threw THEN UiFail(currentLang)
                      ELSE renderStatus(data, currentLang)
       /\ lastEvent' = Event("jsonResolve", currentLang, data, r.threw)
    /\ pc' = "done"
    /\ fetchOutcome' = "ok"
    /\ UNCHANGED <<currentLang, labelEls, activeBtn, fetchCount, coursesAtStart>>
    /\ viewLog' = <<CurrentView'>>

\* LangClick without the early return for the active language
LangClickNoReturn(lang) ==
    /\ pc # "start"
    /\ UNCHANGED <<windVars, pmVars>>
    /\ currentLang' = lang
    /\ UNCHANGED LAST_DATA
    /\ applyLanguage
    /\ LET r == renderAllCourses(LAST_DATA, lang, coursesEl) IN
       /\ coursesEl' = r.cards
       /\ lastEvent' = Event("click", lang, NullData, r.threw)
    /\ viewLog' = Append(LogTail(viewLog), CurrentView')
    /\ UNCHANGED <<pc, fetchOutcome, fetchCount, coursesAtStart>>

\* the click handler of the .lang-btn whose data-lang is lang
LangClick(lang) ==
    /\ pc # "start"
    /\ UNCHANGED <<windVars, pmVars>>
    /\ IF lang = currentLang
       THEN /\ UNCHANGED <<currentLang, LAST_DATA, statusEl, coursesEl, labelEls,
                           courseListUpdatedEl, activeBtn, viewLog>>
            /\ lastEvent' = Event("clickSame", lang, NullData, FALSE)
       ELSE /\ currentLang' = lang
            /\ UNCHANGED LAST_DATA
            /\ applyLanguage
            /\ LET r == renderAllCourses(LAST_DATA, lang, coursesEl) IN
               /\ coursesEl' = r.cards
               /\ lastEvent' = Event("click", lang, NullData, r.threw)
            /\ viewLog' = Append(LogTail(viewLog), CurrentView')
    /\ UNCHANGED <<pc, fetchOutcome, fetchCount, coursesAtStart>>

Next ==
    \/ InitStart
    \/ FetchReject
    \/ \E ok \in BOOLEAN : FetchRespond(ok)
    \/ JsonReject
    \/ \E data \in Payloads : JsonResolve(data)
    \/ \E lang \in Langs : LangClick(lang)

\* ---------------------------------------------------------------- probes
\* The pure helpers applied to inputs drawn from bounded sets.
ProbeIdle ==
    /\ probeDeg = 0 /\ probeLang = "ko"
    /\ probeDir = windDirectionToText(Some(0), "ko")
    /\ pmIn = None /\ pmOut = None /\ pmPrevIn = None /\ pmPrevOut = None

\* windDirectionToText(deg) under currentLang = lang
WindProbe(deg, lang) ==
    /\ probeDeg' = deg
    /\ probeLang' = lang
    /\ probeDir' = windDirectionToText(Some(deg), lang)
    /\ UNCHANGED <<appVars, pmVars>>

\* classifyPm10(value), the previous call kept beside it
Pm10Probe(value) ==
    /\ pmPrevIn' = pmIn
    /\ pmPrevOut' = pmOut
    /\ pmIn' = value
    /\ pmOut' = classifyPm10(value)
    /\ UNCHANGED <<appVars, windVars>>

Bearings == (-MaxDeg)..MaxDeg
PmValues == {None} \cup {Some(v) : v \in 0..MaxPm}

Init == AppInit /\ ProbeIdle
Spec == Init /\ [][Next]_vars

NextWind == \E deg \in Bearings, lang \in Langs : WindProbe(deg, lang)
SpecWind == Init /\ [][NextWind]_vars

NextPm == \E value \in PmValues : Pm10Probe(value)
SpecPm == Init /\ [][NextPm]_vars
\* ---------------------------------------------------------------- claims
FetchFailed == fetchOutcome \in {"transport", "http", "decode"}
ClickEvents == {"click", "clickSame"}
InitEndEvents == {"fetchReject", "fetchRespond", "jsonReject", "jsonResolve"}

\* C1: LAST_DATA changes only in the step that resolves resp.json(), and then
\* it is exactly the decoded payload; a failed fetch (transport, HTTP status,
\* JSON decode) leaves LAST_DATA as it was before init(), and no language
\* click changes it.
C1_PayloadOnlyByFetch ==
    /\ [](FetchFailed => LAST_DATA = NullData)
    /\ [][ /\ (LAST_DATA' # LAST_DATA => lastEvent'.op = "jsonResolve")
           /\ (lastEvent'.op = "jsonResolve" => LAST_DATA' = lastEvent'.data)
           /\ (lastEvent'.op \in ClickEvents => LAST_DATA' = LAST_DATA)
           /\ (FetchFailed' => LAST_DATA' = LAST_DATA) ]_vars

\* C1 witness: the fetch failed, the language was then switched, and the
\* stored payload is still the one from before init().
C1_Witness ==
    /\ FetchFailed
    /\ lastEvent.op = "click"
    /\ currentLang = "en"
    /\ LAST_DATA = NullData

\* C2: when init() has just ended with the failure message in the status
\* line, #courses holds what it held when init() started.
C2_FailureKeepsCards ==
    (/\ pc = "done"
     /\ lastEvent.op \in InitEndEvents
     /\ statusEl = UiFail(currentLang))
    => coursesEl = coursesAtStart

\* C3: rendering never throws, and every record of the stored payload that
\* is not itself sparse has its card in #courses after a render.
C3_RenderTotal ==
    (lastEvent.op \in {"jsonResolve", "click"} /\ ~LAST_DATA.isNull)
    => /\ ~lastEvent.threw
       /\ \A i \in 1..Len(Courses(LAST_DATA)) :
             ~CardThrows(Courses(LAST_DATA)[i])
             => \E j \in 1..Len(coursesEl) :
                   coursesEl[j] = renderCourseCard(Courses(LAST_DATA)[i], currentLang)

\* C4: after a successful fetch of a JSON object, the payload is stored,
\* #courses holds one card per record in feed order, and the status line is
\* the loaded message with the number of records (0 for an empty or absent
\* courses array).
C4_SuccessRendersAll ==
    (lastEvent.op = "jsonResolve" /\ ~lastEvent.data.isNull)
    => /\ LAST_DATA = lastEvent.data
       /\ Len(coursesEl) = Len(Courses(LAST_DATA))
       /\ \A i \in 1..Len(coursesEl) :
             coursesEl[i] = renderCourseCard(Courses(LAST_DATA)[i], currentLang)
       /\ statusEl = UiStatusLoaded(Len(Courses(LAST_DATA)), currentLang)

C6_RoundTrip ==
    (/\ Len(viewLog) = 3
     /\ viewLog[1].lang = "ko"
     /\ viewLog[2].lang = "en"
     /\ viewLog[3].lang = "ko"
     /\ ~viewLog[1].data.isNull)
    => viewLog[3] = viewLog[1]

\* C7: for every integer bearing, windDirectionToText gives one of the 8
\* compass labels of the language, and the same label as for the bearing
\* plus 360.
C7_Periodic ==
    /\ probeDir \in {(IF probeLang = "ko" THEN dirsKo ELSE dirsEn)[i] : i \in 1..8}
    /\ probeDir = windDirectionToText(Some(probeDeg + 360), probeLang)

\* C8: in every rendered card the tag row holds no empty tag and no tag
\* twice.
C8_TagsDeduplicated ==
    \A i \in 1..Len(coursesEl) :
        LET t == coursesEl[i].tags IN
        \A a, b \in 1..Len(t) : t[a] # "" /\ (a # b => t[a] # t[b])

\* C9: classifyPm10 gives no classification exactly for a missing value;
\* otherwise exactly one of the four levels, good up to 30, moderate up to
\* 80, bad up to 150 and very-bad above; and of two classified values the
\* larger never has the less severe level.
Severity(level) ==
    CASE level = "good" -> 0
      [] level = "moderate" -> 1
      [] level = "bad" -> 2
      [] level = "very-bad" -> 3

C9_Pm10Levels ==
    /\ IsNone(pmIn) <=> IsNone(pmOut)
    /\ ~IsNone(pmIn) =>
         LET v == Val(pmIn)
             l == Val(pmOut).level
         IN  /\ l \in {"good", "moderate", "bad", "very-bad"}
             /\ (l = "good") <=> (v <= 30)
             /\ (l = "moderate") <=> (30 < v /\ v <= 80)
             /\ (l = "bad") <=> (80 < v /\ v <= 150)
             /\ (l = "very-bad") <=> (150 < v)
    /\ (~IsNone(pmIn) /\ ~IsNone(pmPrevIn) /\ Val(pmPrevIn) <= Val(pmIn))
         => Severity(Val(pmPrevOut).level) <= Severity(Val(pmOut).level)

\* C9 witness: 30 was classified good and then 31 moderate.
C9_Witness ==
    /\ pmPrevIn = Some(30) /\ pmIn = Some(31)
    /\ Val(pmPrevOut).level = "good"
    /\ Val(pmOut).level = "moderate"

\* C10: once the fetch has failed, the status line is the failure message in
\* the current language, and never the loading message.
C10_FailureSticks ==
    FetchFailed => (statusEl[1] # "statusLoading" /\ statusEl = UiFail(currentLang))
====
